---- MODULE Spec2Model ----
(***************************************************************************)
(* Model of the streaming-connection client of the dashboard: the hooks    *)
(* useEnhancedWebSocket (src/unnamed/part_004) and useWebSocket            *)
(* (src/frontend/hooks/useWebSocket.ts), their reducers, their timers and  *)
(* the WebSocket transports they create.  A run is a run of one of the two *)
(* hooks (cfg.hook); the definitions named Basic... are those of           *)
(* useWebSocket.  Spec is the hook with its sockets and timers, time       *)
(* abstracted; TimedSpec is the open connection with the clock; and        *)
(* ReducerSpec is the reducer alone.                                       *)
(*                                                                         *)
(* Conventions                                                             *)
(*  - A nullable field of the source (T | null) is a sequence: << >> is    *)
(*    null and <<v>> is the value v.                                       *)
(*  - A handler of the source is an operator from machine state to machine *)
(*    state (a record with one field per variable), so that a handler that *)
(*    calls clearAllTimers(), dispatch(), connect() ... is the composition *)
(*    of those operators in program order.  An action applies one handler. *)
(*  - socks holds the WebSocket objects that still exist, in creation      *)
(*    order: an object that is closed and that nothing refers to any more  *)
(*    is garbage and leaves the sequence.                                  *)
(*  - React renders the component after the handler that dispatched, and   *)
(*    runs the effects whose dependencies changed, before the next event   *)
(*    of a socket or timer is handled: an action is the handler followed   *)
(*    by that render.                                                      *)
(***************************************************************************)
EXTENDS Integers, Sequences, FiniteSets, TLC

(***************************************************************************)
(* Bounds of the model.                                                    *)
(***************************************************************************)
\* WebSocket objects of a run of useEnhancedWebSocket that exist at the same time
MaxSockets == 2
\* WebSocket objects of a run of useWebSocket that exist at the same time: a
\* render that runs the lifecycle effect again leaves two closing and one new
BasicMaxSockets == 3
\* configuration value CONFIG.REALTIME.BUFFER_SIZE of the run
BufferSize == 2
\* 100 ms timers (reconnect(), auto-subscribe stagger) pending at once
MaxShortTimers == 5
\* the history counter nSched stops counting here
MaxCounted == 8
\* latency-check periods (heartbeatInterval / 2) that a run with the clock lasts
MaxChecks == 8
\* a run of the reducer alone: clock ticks, and RECONNECTING actions in a row
ReducerDepth == 2

(***************************************************************************)
(* Program constants.                                                      *)
(***************************************************************************)
\* maxReconnectAttempts (CONFIG.WEBSOCKET.RECONNECT.MAX_ATTEMPTS)
MaxReconnectAttempts == 5
\* reconnectDelay (CONFIG.WEBSOCKET.RECONNECT.INITIAL_DELAY), ms
ReconnectDelay == 2000
\* CONFIG.WEBSOCKET.RECONNECT.BACKOFF_FACTOR
BackoffFactor == 2
\* CONFIG.WEBSOCKET.RECONNECT.MAX_DELAY, ms
MaxDelay == 30000
\* the factor of the jitter term Math.random() * 1000, ms
JitterScale == 1000
\* delay of reconnect()'s setTimeout(connect, 100) and of the subscribe stagger
ShortDelay == 100
\* connectionTimeout, ms
ConnectionTimeout == 10000
\* heartbeatInterval, ms
HeartbeatInterval == 30000
\* close code of a clean closure
NormalClosure == 1000
\* close code the platform reports when no close frame was received
AbnormalClosure == 1006

CloseCodes == {NormalClosure, AbnormalClosure}

ReadyStates == {"CONNECTING", "OPEN", "CLOSING", "CLOSED"}

\* CONFIG.WEBSOCKET.CHANNELS.* in the order of essentialChannels
essentialChannels == <<"account_updates", "position_updates", "order_updates", "connection_status">>

\* channels a caller subscribes to: one of the defaults and one that is not
UserChannels == {"market_EURUSD"}

Min(a, b) == IF a < b THEN a ELSE b

RECURSIVE Pow(_, _)
Pow(b, e) == IF e = 0 THEN 1 ELSE b * Pow(b, e - 1)

(***************************************************************************)
(* Inbound frames.  A parsed frame is a record {type, data}; the payload   *)
(* is flattened into one record shape:                                     *)
(*   kind      "null" | "string" | "array" | "object"                      *)
(*   str       the string, when kind = "string"                            *)
(*   arr       the sequence, when kind = "array"                           *)
(*   keys      the property names present, when kind = "object"            *)
(*   num       the account record (its balance)                            *)
(*   symbol, inner, message, connected, sub, timestamp                     *)
(*             the members symbol, positions/orders, message, connected,   *)
(*             data, timestamp of an object payload                        *)
(***************************************************************************)
NoPayload ==
    [kind |-> "null", str |-> "", arr |-> << >>, keys |-> {}, num |-> 0,
     symbol |-> "", inner |-> << >>, message |-> "", connected |-> FALSE, sub |-> 0,
     timestamp |-> 0]

AccountPayload(balance) ==
    [NoPayload EXCEPT !.kind = "object", !.keys = {"balance"}, !.num = balance]

QuotePayload(sym, bid) ==
    [NoPayload EXCEPT !.kind = "object", !.keys = {"symbol", "bid"}, !.symbol = sym, !.num = bid]

ArrayPayload(items) == [NoPayload EXCEPT !.kind = "array", !.arr = items]

Frame(t, d) == [type |-> t, data |-> d]

\* frames the server sends in the connection model; the reducer is run on
\* frames of every kind in ReducerSpec
Frames == { Frame("account_update", AccountPayload(100)) }

(***************************************************************************)
(* The snapshot and its reducer.  The field messageBuffer of the snapshot  *)
(* is never written and is left out.                                       *)
(***************************************************************************)
initialState ==
    [accountData |-> << >>, marketData |-> << >>, positions |-> << >>, orders |-> << >>,
     isConnected |-> FALSE, error |-> << >>, connectionAttempts |-> 0,
     lastMessageTime |-> << >>, subscribedChannels |-> {}, latency |-> 0]

\* the merge that keeps only the new entry
MergeQuoteMutant(md, sym, q) == << {<<sym, q>>} >>

\* {...marketData, [symbol]: quote} on a set of <<symbol, quote>> pairs
MergeQuote(md, sym, q) ==
    LET old == IF md = << >> THEN {} ELSE md[1]
    IN  << {e \in old : e[1] # sym} \cup {<<sym, q>>} >>

\* processMessage that returns the snapshot itself for a kind it has no case for
processMessageMutant(st, message, clock) ==
    IF message.type = "account_update"
    THEN [st EXCEPT !.lastMessageTime = <<clock>>, !.accountData = <<message.data.num>>]
    ELSE st

processMessage(st, message, clock) ==
    LET type == message.type
        data == message.data
        newState == [st EXCEPT !.lastMessageTime = <<clock>>]
    IN  CASE type = "account_update" ->
               [newState EXCEPT !.accountData = <<data.num>>]
          [] type = "market_data" ->
               IF data.kind = "object" /\ "symbol" \in data.keys
               THEN [newState EXCEPT !.marketData =
                        MergeQuote(newState.marketData, data.symbol,
                                   IF data.sub # 0 THEN data.sub ELSE data.num)]
               ELSE newState
          [] type = "position_update" ->
               IF data.kind = "array"
               THEN [newState EXCEPT !.positions = <<data.arr>>]
               ELSE IF data.kind = "object" /\ "positions" \in data.keys
               THEN [newState EXCEPT !.positions = <<data.inner>>]
               ELSE newState
          [] type = "order_update" ->
               IF data.kind = "array"
               THEN [newState EXCEPT !.orders = <<data.arr>>]
               ELSE IF data.kind = "object" /\ "orders" \in data.keys
               THEN [newState EXCEPT !.orders = <<data.inner>>]
               ELSE newState
          [] type \in {"connection_status", "connection_connected"} ->
               [newState EXCEPT !.error =
                   IF data.kind = "object" /\ data.connected THEN << >>
                   ELSE IF data.kind = "object" /\ data.message # "" THEN <<data.message>>
                   ELSE <<"Connection status unknown">>]
          [] type = "connection_disconnected" ->
               [newState EXCEPT !.error = <<"MT5 connection lost">>]
          [] type = "error" ->
               IF data.kind = "string"
               THEN [newState EXCEPT !.error = <<data.str>>]
               ELSE IF data.kind = "object" /\ "message" \in data.keys
               THEN [newState EXCEPT !.error =
                        IF data.message # "" THEN <<data.message>> ELSE <<"Unknown server error">>]
               ELSE [newState EXCEPT !.error = <<"Unknown server error">>]
          [] type = "pong" ->
               IF data.kind = "object" /\ "timestamp" \in data.keys /\ data.timestamp # 0
               THEN [newState EXCEPT !.latency = clock - data.timestamp]
               ELSE newState
          [] OTHER -> newState

\* the batch applied from its last message to its first
RECURSIVE BatchUpdateMutant(_, _, _)
BatchUpdateMutant(st, messages, clock) ==
    IF messages = << >> THEN st
    ELSE processMessage(BatchUpdateMutant(st, Tail(messages), clock), Head(messages), clock)

RECURSIVE BatchUpdate(_, _, _)
BatchUpdate(st, messages, clock) ==
    IF messages = << >> THEN st
    ELSE BatchUpdate(processMessage(st, Head(messages), clock), Tail(messages), clock)

\* reducer, 'DISCONNECTED': everything but the subscriptions is reset
ReduceDisconnectedMutant(st, reason) ==
    [initialState EXCEPT !.error = IF reason = "" THEN <<"Connection lost.">> ELSE <<reason>>]

ReduceDisconnected(st, reason) ==
    [initialState EXCEPT
        !.error = IF reason = "" THEN <<"Connection lost.">> ELSE <<reason>>,
        !.subscribedChannels = st.subscribedChannels]

reducer(st, action, clock) ==
    CASE action.type = "CONNECTED" ->
           [st EXCEPT !.isConnected = TRUE, !.error = << >>,
                      !.connectionAttempts = 0, !.lastMessageTime = <<clock>>]
      [] action.type = "DISCONNECTED" -> ReduceDisconnected(st, action.reason)
      [] action.type = "RECONNECTING" ->
           [st EXCEPT !.isConnected = FALSE,
                      !.error = <<"Reconnecting... Attempt", st.connectionAttempts + 1>>,
                      !.connectionAttempts = st.connectionAttempts + 1]
      [] action.type = "MESSAGE" -> processMessage(st, action.messages[1], clock)
      [] action.type = "BATCH_UPDATE" -> BatchUpdate(st, action.messages, clock)
      [] action.type = "SUBSCRIBE" ->
           [st EXCEPT !.subscribedChannels = st.subscribedChannels \cup {action.channel}]
      [] action.type = "UNSUBSCRIBE" ->
           [st EXCEPT !.subscribedChannels = st.subscribedChannels \ {action.channel}]
      [] action.type = "UPDATE_LATENCY" -> [st EXCEPT !.latency = action.latency]
      [] OTHER -> st

\* connectionQuality, derived from the snapshot at each render; the first
\* variant has the bound of 'good' one too high
connectionQualityMutant(st) ==
    IF st.isConnected
    THEN IF st.latency = 0 THEN "excellent"
         ELSE IF st.latency < 100 THEN "excellent"
         ELSE IF st.latency <= 300 THEN "good"
         ELSE "poor"
    ELSE "disconnected"

connectionQuality(st) ==
    IF st.isConnected
    THEN IF st.latency = 0 THEN "excellent"
         ELSE IF st.latency < 100 THEN "excellent"
         ELSE IF st.latency < 300 THEN "good"
         ELSE "poor"
    ELSE "disconnected"

\* the action objects handed to dispatch, in one record shape
Act(t) == [type |-> t, reason |-> "", messages |-> << >>, channel |-> "", latency |-> 0]

(***************************************************************************)
(* The snapshot of useWebSocket and its reducer.  The snapshot has the     *)
(* fields accountData, isConnected, error, connectionAttempts and          *)
(* lastMessageTime; in the record of the model the other fields keep the   *)
(* value they have in initialState.                                        *)
(***************************************************************************)
\* a reducer that takes every message for the loss of the connection
BasicProcessMessageMutant(st, message, clock) ==
    [st EXCEPT !.lastMessageTime = <<clock>>, !.isConnected = FALSE,
               !.error = <<"MT5 connection lost">>]

\* reducer, 'MESSAGE'
BasicProcessMessage(st, message, clock) ==
    LET type == message.type
        data == message.data
        newState == [st EXCEPT !.lastMessageTime = <<clock>>]
    IN  CASE type = "account_update" ->
               [newState EXCEPT !.accountData = <<data.num>>]
          [] type \in {"connection_status", "connection_connected"} ->
               [newState EXCEPT !.error =
                   IF data.kind = "object" /\ data.connected THEN << >>
                   ELSE IF data.kind = "object" /\ data.message # "" THEN <<data.message>>
                   ELSE <<"Connection status unknown">>]
          [] type = "connection_disconnected" ->
               [newState EXCEPT !.error = <<"MT5 connection lost">>]
          [] type = "error" ->
               [newState EXCEPT !.error =
                   IF data.kind = "object" /\ data.message # "" THEN <<data.message>>
                   ELSE <<"Unknown server error">>]
          [] OTHER -> newState

BasicReducer(st, action, clock) ==
    CASE action.type = "CONNECTED" ->
           [st EXCEPT !.isConnected = TRUE, !.error = << >>,
                      !.connectionAttempts = 0, !.lastMessageTime = <<clock>>]
      [] action.type = "DISCONNECTED" ->
           [initialState EXCEPT
               !.error = IF action.reason = "" THEN <<"Connection lost.">> ELSE <<action.reason>>]
      [] action.type = "RECONNECTING" ->
           [st EXCEPT !.isConnected = FALSE,
                      !.error = <<"Reconnecting... Attempt", st.connectionAttempts + 1>>,
                      !.connectionAttempts = st.connectionAttempts + 1]
      [] action.type = "MESSAGE" -> BasicProcessMessage(st, action.messages[1], clock)
      [] OTHER -> st

(***************************************************************************)
(* The machine.                                                            *)
(***************************************************************************)
VARIABLES
    cfg,                \* the hook of the run and its CONFIG flags batch, autoSubscribe
    socks,              \* the WebSocket objects that exist, in creation order
    ws,                 \* metaRef.current.ws: an index of socks, 0 for null
    timers,             \* metaRef.current.timers: timer ids, 0 for null
    pending,            \* timers armed through metaRef.current.timers and not yet fired
    shortQ,             \* armed 100 ms timers that no handle refers to, oldest first
    flushArmed,         \* the batch flush interval of the effect is armed
    isManualClose,      \* metaRef.current.isManualClose
    connectionAttempts, \* metaRef.current.connectionAttempts
    messageBuffer,      \* metaRef.current.messageBuffer
    lastPingTime,       \* metaRef.current.lastPingTime
    state,              \* the snapshot held by useReducer
    mounted,            \* "init" before the effects ran, then "mounted", then "unmounted"
    now,                \* Date.now(), ms; only the action Advance moves the clock
    unanswered,         \* history: when the oldest ping without a pong was sent, or 0
    last,               \* history: balance of the last account_update delivered since
                        \* the snapshot was last cleared, or 0
    nSched,             \* history: reconnects scheduled since the last open or reconnect()
    cycled,             \* history: the snapshot went through a DISCONNECTED transition
    ev                  \* history: the handler that ran last, see Becomes

vars == <<cfg, socks, ws, timers, pending, shortQ, flushArmed, isManualClose,
          connectionAttempts, messageBuffer, lastPingTime, state, mounted, now,
          unanswered, last, nSched, cycled, ev>>

\* the machine state as one record; made counts the WebSocket objects the
\* running handler has created
Cur ==
    [cfg |-> cfg, socks |-> socks, ws |-> ws, timers |-> timers, pending |-> pending,
     shortQ |-> shortQ, flushArmed |-> flushArmed, isManualClose |-> isManualClose,
     connectionAttempts |-> connectionAttempts, messageBuffer |-> messageBuffer,
     lastPingTime |-> lastPingTime, state |-> state, mounted |-> mounted, now |-> now,
     unanswered |-> unanswered, last |-> last, nSched |-> nSched, cycled |-> cycled,
     made |-> 0]

Ev(op, s, code) ==
    [op |-> op, sock |-> s, code |-> code, made |-> 0, had |-> FALSE, timedOut |-> FALSE]

NoTimers == [heartbeat |-> 0, reconnect |-> 0, connection |-> 0, latencyCheck |-> 0]

TimerKinds == {"heartbeat", "reconnect", "connection", "latencyCheck"}

\* rs: readyState; est: the connection was established; manual: disconnect()
\* was called while the hook owned it; sent: the channels a subscribe request
\* was written for; att: state.connectionAttempts in the closure of the
\* connect() that created it and set its handlers (useWebSocket)
NewSocket(att) ==
    [rs |-> "CONNECTING", est |-> FALSE, manual |-> FALSE, sent |-> {}, att |-> att]

\* a socket whose connection is closed; what it was is no longer recorded
ClosedSocket == [rs |-> "CLOSED", est |-> FALSE, manual |-> FALSE, sent |-> {}, att |-> 0]

\* the objects something still refers to or that can still raise an event
Kept(m) ==
    {i \in 1..Len(m.socks) :
        \/ m.socks[i].rs # "CLOSED"
        \/ m.ws = i
        \/ \E t \in m.pending : t.sock = i}

Rank(K, i) == Cardinality({j \in K : j <= i})

\* a closed WebSocket object that neither metaRef nor a timer closure refers
\* to is garbage; the others keep their order
Collect(m) ==
    LET K == Kept(m)
        Nth(k) == CHOOSE i \in K : Rank(K, i) = k
    IN  [m EXCEPT !.socks = [k \in 1..Cardinality(K) |-> m.socks[Nth(k)]],
                  !.ws = IF m.ws = 0 THEN 0 ELSE Rank(K, m.ws),
                  !.pending = {[t EXCEPT !.sock = IF @ = 0 THEN 0 ELSE Rank(K, @)] : t \in m.pending}]

\* the id setTimeout/setInterval returns: one no armed timer has
NewId(m) == CHOOSE i \in 1..(Cardinality(m.pending) + 1) : \A t \in m.pending : t.id # i

\* a timer: sock is the socket its callback closes over (connection timeout),
\* delay the delay passed, jitter the random part of it, due the time of its
\* next run; owned (reconnect timer) records that the close that armed it was the close of
\* metaRef.current.ws; att is state.connectionAttempts in the closure of its
\* callback (useWebSocket)
Timer(kind, delay) ==
    [id |-> 0, kind |-> kind, sock |-> 0, delay |-> delay, jitter |-> 0, older |-> 0,
     owned |-> FALSE, att |-> 0, due |-> 0]

\* setTimeout/setInterval whose handle is stored in metaRef.current.timers.
\* The delay is above 100 ms, so the timer fires after the 100 ms timers armed
\* before it: older counts those that are still armed.
ArmTimer(m, t) ==
    LET id == NewId(m)
    IN  [m EXCEPT !.pending = @ \cup {[t EXCEPT !.id = id, !.older = Len(m.shortQ),
                                                 !.due = m.now + t.delay]},
                  !.timers[t.kind] = id]

ClearAllTimers(m) ==
    [m EXCEPT !.pending = {t \in @ : \A k \in TimerKinds : m.timers[k] # t.id},
              !.timers = NoTimers]

\* dispatch of useReducer; the state of an unmounted component is gone
dispatch(m, action) ==
    IF m.mounted = "unmounted" THEN m
    ELSE [m EXCEPT !.state = reducer(@, action, m.now),
                   !.last = IF action.type = "DISCONNECTED" THEN 0 ELSE @]

BasicDispatch(m, action) ==
    IF m.mounted = "unmounted" THEN m
    ELSE [m EXCEPT !.state = BasicReducer(@, action, m.now)]

\* WebSocket.close() of the platform: a socket not yet closed starts closing
CloseSocket(m, s) ==
    IF s # 0 /\ m.socks[s].rs \in {"CONNECTING", "OPEN"}
    THEN [m EXCEPT !.socks[s].rs = "CLOSING", !.socks[s].sent = {}]
    ELSE m

\* ws.send(): of what is written on a socket, the model keeps the channels
\* of the subscribe requests
Written(sent, message) ==
    IF message.type = "subscribe" THEN sent \cup {message.channel} ELSE sent

\* sendMessage() without the readyState test: it writes on whatever socket
\* the hook owns
sendMessageMutant(m, message) ==
    IF m.ws # 0
    THEN [m EXCEPT !.socks[m.ws].sent = Written(@, message)]
    ELSE m

sendMessage(m, message) ==
    IF m.ws # 0 /\ m.socks[m.ws].rs = "OPEN"
    THEN [m EXCEPT !.socks[m.ws].sent = Written(@, message)]
    ELSE m

Out(t, c) == [type |-> t, channel |-> c]

\* subscribe() that sends the request and leaves the local set alone
subscribeMutant(m, channel) == sendMessage(m, Out("subscribe", channel))

subscribe(m, channel) ==
    dispatch(sendMessage(m, Out("subscribe", channel)),
             [Act("SUBSCRIBE") EXCEPT !.channel = channel])

unsubscribe(m, channel) ==
    dispatch(sendMessage(m, Out("unsubscribe", channel)),
             [Act("UNSUBSCRIBE") EXCEPT !.channel = channel])

startHeartbeat(m) == ArmTimer(m, Timer("heartbeat", HeartbeatInterval))

\* the callback of the heartbeat interval
heartbeat(m) ==
    IF m.ws # 0 /\ m.socks[m.ws].rs = "OPEN"
    THEN sendMessage([m EXCEPT !.lastPingTime = m.now,
                               !.unanswered = IF @ = 0 THEN m.now ELSE @],
                     Out("ping", ""))
    ELSE m

\* the callback of the latency-check interval
latencyCheck(m) ==
    IF m.lastPingTime > 0 /\ m.now - m.lastPingTime > HeartbeatInterval * 2
    THEN dispatch(m, [Act("UPDATE_LATENCY") EXCEPT !.latency = -1])
    ELSE m

startLatencyMonitoring(m) == ArmTimer(m, Timer("latencyCheck", HeartbeatInterval \div 2))

RECURSIVE StaggerAll(_, _)
StaggerAll(q, chans) ==
    IF chans = << >> THEN q
    ELSE StaggerAll(Append(q, [kind |-> "autosub", chan |-> Head(chans), att |-> 0]),
                    Tail(chans))

\* autoSubscribeToChannels that leaves out the first of the channels
autoSubscribeToChannelsMutant(m) ==
    IF ~m.cfg.autoSubscribe THEN m
    ELSE [m EXCEPT !.shortQ = StaggerAll(@, Tail(essentialChannels))]

autoSubscribeToChannels(m) ==
    IF ~m.cfg.autoSubscribe THEN m
    ELSE [m EXCEPT !.shortQ = StaggerAll(@, essentialChannels)]

\* the guard of connect(): the early return, without the test of the socket
ConnectRefusedMutant(m) ==
    m.connectionAttempts > MaxReconnectAttempts

ConnectRefused(m) ==
    \/ (m.ws # 0 /\ m.socks[m.ws].rs \in {"CONNECTING", "OPEN"})
    \/ m.connectionAttempts > MaxReconnectAttempts

\* new WebSocket(url), stored in metaRef.current.ws, and its connection timeout
Opened(m, att) ==
    LET s  == Len(m.socks) + 1
        m1 == [m EXCEPT !.socks = Append(@, NewSocket(att)), !.ws = s, !.made = @ + 1]
    IN  ArmTimer(m1, [Timer("connection", ConnectionTimeout) EXCEPT !.sock = s])

connect(m) ==
    IF ConnectRefused(m) THEN m
    ELSE Opened([ClearAllTimers(m) EXCEPT !.isManualClose = FALSE], 0)

\* ws.onopen that keeps the attempts counted so far
onopenMutant(m, s) ==
    LET m1 == [ClearAllTimers(m) EXCEPT !.nSched = 0, !.unanswered = 0]
        m2 == dispatch(m1, Act("CONNECTED"))
    IN  autoSubscribeToChannels(startLatencyMonitoring(startHeartbeat(m2)))

\* ws.onopen of socket s
onopen(m, s) ==
    LET m1 == [ClearAllTimers(m) EXCEPT !.connectionAttempts = 0, !.nSched = 0,
                                        !.unanswered = 0]
        m2 == dispatch(m1, Act("CONNECTED"))
    IN  autoSubscribeToChannels(startLatencyMonitoring(startHeartbeat(m2)))

\* ws.onmessage that forwards the frames of every type
onmessageMutant(m, s, message) ==
    IF m.cfg.batch
    THEN LET buf == Append(m.messageBuffer, message)
         IN  IF Len(buf) >= BufferSize
             THEN [dispatch(m, [Act("BATCH_UPDATE") EXCEPT !.messages = buf])
                      EXCEPT !.messageBuffer = << >>]
             ELSE [m EXCEPT !.messageBuffer = buf]
    ELSE dispatch(m, [Act("MESSAGE") EXCEPT !.messages = <<message>>])

\* ws.onmessage of socket s, for a frame that parsed
onmessage(m, s, message) ==
    IF message.type = "pong"
    THEN dispatch([m EXCEPT !.unanswered = 0],
                  [Act("UPDATE_LATENCY") EXCEPT !.latency = m.now - m.lastPingTime])
    ELSE IF message.type = "heartbeat" THEN m
    ELSE LET m1 == IF message.type = "account_update"
                   THEN [m EXCEPT !.last = message.data.num] ELSE m
         IN  IF m.cfg.batch
             THEN LET buf == Append(m.messageBuffer, message)
                  IN  IF Len(buf) >= BufferSize
                      THEN [dispatch(m1, [Act("BATCH_UPDATE") EXCEPT !.messages = buf])
                               EXCEPT !.messageBuffer = << >>]
                      ELSE [m1 EXCEPT !.messageBuffer = buf]
             ELSE dispatch(m1, [Act("MESSAGE") EXCEPT !.messages = <<message>>])

\* the delay of the reconnect timer before jitter
BackoffDelay(attempts) == Min(ReconnectDelay * Pow(BackoffFactor, attempts), MaxDelay)

\* a flush that drops the buffered messages
FlushBufferMutant(m) == [m EXCEPT !.messageBuffer = << >>]

\* flush of the remaining buffered messages, in onclose and in the interval
FlushBuffer(m) ==
    IF Len(m.messageBuffer) > 0
    THEN [dispatch(m, [Act("BATCH_UPDATE") EXCEPT !.messages = m.messageBuffer])
             EXCEPT !.messageBuffer = << >>]
    ELSE m

\* ws.onclose of socket s, for a close event with the given code and reason
onclose(m, s, code, reason, jitter) ==
    LET m1 == FlushBuffer(ClearAllTimers(m))
        m2 == [dispatch(m1, [Act("DISCONNECTED") EXCEPT
                                !.reason = IF reason = "" THEN "Connection lost" ELSE reason])
                  EXCEPT !.cycled = TRUE]
    IN  IF m2.isManualClose \/ code = NormalClosure THEN m2
        ELSE LET m3 == [m2 EXCEPT !.connectionAttempts = @ + 1,
                                  !.nSched = Min(@ + 1, MaxCounted)]
             IN  ArmTimer(m3, [Timer("reconnect", BackoffDelay(m3.connectionAttempts) + jitter)
                                  EXCEPT !.jitter = jitter, !.owned = (m.ws = s)])

\* metaRef.current.ws?.close(1000, 'Manual disconnect'); metaRef.current.ws = null
Dropped(m) ==
    LET m1 == [CloseSocket(m, m.ws) EXCEPT !.ws = 0, !.cycled = TRUE]
    IN  IF m.ws = 0 THEN m1 ELSE [m1 EXCEPT !.socks[m.ws].manual = TRUE]

\* disconnect() that flips the manual-close flag
disconnectMutant(m) ==
    LET m1 == ClearAllTimers([m EXCEPT !.isManualClose = ~@, !.connectionAttempts = 0])
    IN  dispatch(Dropped(m1), [Act("DISCONNECTED") EXCEPT !.reason = "Manually disconnected"])

disconnect(m) ==
    LET m1 == ClearAllTimers([m EXCEPT !.isManualClose = TRUE, !.connectionAttempts = 0])
    IN  dispatch(Dropped(m1), [Act("DISCONNECTED") EXCEPT !.reason = "Manually disconnected"])

\* reconnect() that arms its timer without disconnect()
reconnectMutant(m) ==
    [m EXCEPT !.shortQ = Append(@, [kind |-> "manual", chan |-> "", att |-> 0])]

\* reconnect(): disconnect() and an untracked setTimeout(connect, 100)
reconnect(m) ==
    [disconnect(m) EXCEPT !.shortQ = Append(@, [kind |-> "manual", chan |-> "", att |-> 0])]

(***************************************************************************)
(* The handlers of useWebSocket.  Its connect() reads                      *)
(* state.connectionAttempts: the value is the one of the render that       *)
(* created the callback, att below, and the handlers and timer callbacks   *)
(* that a connect() sets up call that same connect().                      *)
(***************************************************************************)
\* clearAllTimers leaves the handles as they are; a handle of a cleared or
\* fired timer is only ever passed to clearTimeout again, as null is
BasicClearAllTimers(m) == ClearAllTimers(m)

\* the guard of connect(): the early return
BasicConnectRefused(m, att) ==
    \/ (m.ws # 0 /\ m.socks[m.ws].rs \in {"CONNECTING", "OPEN"})
    \/ att > MaxReconnectAttempts

BasicConnect(m, att) ==
    IF BasicConnectRefused(m, att) THEN m
    ELSE Opened([BasicClearAllTimers(m) EXCEPT !.isManualClose = FALSE], att)

\* ws.onopen of socket s
BasicOnopen(m, s) ==
    LET m1 == BasicDispatch([BasicClearAllTimers(m) EXCEPT !.nSched = 0], Act("CONNECTED"))
    IN  ArmTimer(m1, Timer("heartbeat", HeartbeatInterval))

\* ws.onmessage of socket s, for a frame that parsed
BasicOnmessage(m, s, message) ==
    IF message.type # "pong" /\ message.type # "heartbeat"
    THEN BasicDispatch(m, [Act("MESSAGE") EXCEPT !.messages = <<message>>])
    ELSE m

\* ws.onclose of socket s, set by a connect() whose closure holds att
BasicOnclose(m, s, att, code, reason) ==
    LET m1 == BasicDispatch(BasicClearAllTimers(m),
                            [Act("DISCONNECTED") EXCEPT
                                !.reason = IF reason = "" THEN "Connection lost" ELSE reason])
        m2 == [m1 EXCEPT !.cycled = TRUE]
    IN  IF m2.isManualClose \/ code = NormalClosure THEN m2
        ELSE ArmTimer([m2 EXCEPT !.nSched = Min(@ + 1, MaxCounted)],
                      [Timer("reconnect", Min(ReconnectDelay * Pow(2, att), 30000))
                          EXCEPT !.owned = (m.ws = s), !.att = att])

BasicDisconnect(m) ==
    LET m1 == BasicClearAllTimers([m EXCEPT !.isManualClose = TRUE])
    IN  BasicDispatch(Dropped(m1),
                      [Act("DISCONNECTED") EXCEPT !.reason = "Manually disconnected"])

\* reconnect() of the render with state.connectionAttempts = att
BasicReconnect(m, att) ==
    [BasicDisconnect(m) EXCEPT
        !.shortQ = Append(@, [kind |-> "manual", chan |-> "", att |-> att])]

\* The render after a handler.  connect is memoized on
\* state.connectionAttempts, and the lifecycle effect depends on connect:
\* when the value differs from att, the one of the previous render, the
\* cleanup of the effect runs disconnect() and the effect runs the new
\* connect(); the DISCONNECTED that disconnect() dispatched is rendered next.
RECURSIVE BasicRender(_, _)
BasicRender(m, att) ==
    IF m.mounted # "mounted" \/ m.state.connectionAttempts = att THEN m
    ELSE BasicRender(BasicConnect(BasicDisconnect(m), m.state.connectionAttempts),
                     m.state.connectionAttempts)

\* the trading data of a snapshot
HasData(st) ==
    st.accountData # << >> \/ st.marketData # << >> \/ st.positions # << >> \/ st.orders # << >>

\* the connection-timeout callback called close() on the socket: nothing
\* else closes a socket that disconnect() was not called on
TimedOut(sk) == sk.rs = "CLOSING" /\ ~sk.manual

\* the handlers the history variable ev tells apart
Observed == {"SockClose", "Reconnect", "ReconnectFire", "ManualFire"}

\* the successor state is the record m, after the handler described by e:
\* op names the handler, sock and code its socket (index before the handler
\* ran) and close code, made the WebSocket objects it created, had whether
\* the snapshot held trading data before it ran, timedOut whether the socket
\* of a close event had been closed by its connection timeout.  A handler
\* runs when the objects it leaves are within the bound on WebSocket objects.
Becomes(m, e) ==
    LET c == Collect(m)
    IN
    /\ Len(c.socks) <= (IF m.cfg.hook = "basic" THEN BasicMaxSockets ELSE MaxSockets)
    /\ cfg' = m.cfg
    /\ socks' = c.socks
    /\ ws' = c.ws
    /\ timers' = m.timers
    /\ pending' = c.pending
    /\ shortQ' = m.shortQ
    /\ flushArmed' = m.flushArmed
    /\ isManualClose' = m.isManualClose
    /\ connectionAttempts' = m.connectionAttempts
    /\ messageBuffer' = m.messageBuffer
    /\ lastPingTime' = m.lastPingTime
    /\ state' = m.state
    /\ mounted' = m.mounted
    /\ now' = m.now
    /\ unanswered' = m.unanswered
    /\ last' = m.last
    /\ nSched' = m.nSched
    /\ cycled' = m.cycled
    /\ ev' = IF e.op \in Observed
             THEN [e EXCEPT !.made = m.made, !.had = HasData(state),
                            !.timedOut = (e.op = "SockClose" /\ TimedOut(socks[e.sock]))]
             ELSE [Ev("other", 0, 0) EXCEPT !.made = m.made]

(***************************************************************************)
(* Initial state: the hook has been rendered once, no effect has run.      *)
(***************************************************************************)
\* CONFIG.REALTIME.BATCH_UPDATES and AUTO_SUBSCRIBE: both off, or one of them on
Configs ==
    {c \in [hook : {"enhanced"}, batch : BOOLEAN, autoSubscribe : BOOLEAN] :
        ~(c.batch /\ c.autoSubscribe)}
        \cup {[hook |-> "basic", batch |-> FALSE, autoSubscribe |-> FALSE]}

\* the jitter term: Math.random() * 1000, of which the model takes the two
\* ends, or 0 when CONFIG.WEBSOCKET.RECONNECT.JITTER is off
Jitters == {0, JitterScale - 1}

Init ==
    /\ cfg \in Configs
    /\ socks = << >>
    /\ ws = 0
    /\ timers = NoTimers
    /\ pending = {}
    /\ shortQ = << >>
    /\ flushArmed = FALSE
    /\ isManualClose = FALSE
    /\ connectionAttempts = 0
    /\ messageBuffer = << >>
    /\ lastPingTime = 0
    /\ state = initialState
    /\ mounted = "init"
    /\ now = 1
    /\ unanswered = 0
    /\ last = 0
    /\ nSched = 0
    /\ cycled = FALSE
    /\ ev = Ev("init", 0, 0)

(***************************************************************************)
(* The owning component.                                                   *)
(***************************************************************************)
Basic == cfg.hook = "basic"

\* useWebSocket: the render that follows a handler
Rendered(m) == IF Basic THEN BasicRender(m, state.connectionAttempts) ELSE m

\* the mount effects: arm the flush interval, then connect()
Mount ==
    /\ mounted = "init"
    /\ LET m == [Cur EXCEPT !.flushArmed = cfg.batch, !.mounted = "mounted"]
       IN  Becomes(IF Basic THEN BasicConnect(m, state.connectionAttempts) ELSE connect(m),
                   Ev("Mount", 0, 0))

\* the effect cleanups: clearInterval of the flush interval, then
\* disconnect(); the snapshot is discarded with the component
Unmount ==
    /\ mounted = "mounted"
    /\ LET m == [Cur EXCEPT !.flushArmed = FALSE, !.mounted = "unmounted",
                            !.state = initialState, !.last = 0, !.nSched = 0]
       IN  Becomes(IF Basic THEN BasicDisconnect(m) ELSE disconnect(m), Ev("Unmount", ws, 0))

\* the caller invokes reconnect()
Reconnect ==
    /\ mounted = "mounted"
    /\ Len(shortQ) < MaxShortTimers
    /\ LET m == [Cur EXCEPT !.nSched = 0]
       IN  Becomes(IF Basic THEN Rendered(BasicReconnect(m, state.connectionAttempts))
                   ELSE reconnect(m),
                   Ev("Reconnect", ws, 0))

Subscribe(c) ==
    /\ mounted = "mounted" /\ ~Basic
    /\ Becomes(subscribe(Cur, c), Ev("Subscribe", ws, 0))

Unsubscribe(c) ==
    /\ mounted = "mounted" /\ ~Basic
    /\ Becomes(unsubscribe(Cur, c), Ev("Unsubscribe", ws, 0))

(***************************************************************************)
(* The platform: events of the WebSocket objects.                          *)
(***************************************************************************)
\* the opening handshake of socket s completes: readyState OPEN, then onopen
OpenEvent(s) ==
    LET m == [Cur EXCEPT !.socks[s].rs = "OPEN", !.socks[s].est = TRUE]
    IN  IF Basic THEN Rendered(BasicOnopen(m, s)) ELSE onopen(m, s)

SockOpen(s) ==
    /\ socks[s].rs = "CONNECTING"
    /\ cfg.autoSubscribe => Len(shortQ) + Len(essentialChannels) <= MaxShortTimers
    /\ Becomes(OpenEvent(s), Ev("SockOpen", s, 0))

\* the message event of socket s for frame f, in machine state m
MessageEvent(m, s, f) ==
    IF Basic THEN Rendered(BasicOnmessage(m, s, f)) ELSE onmessage(m, s, f)

\* a message event is delivered only while readyState is OPEN
SockMessage(s, f) ==
    /\ socks[s].rs = "OPEN"
    /\ Becomes(MessageEvent(Cur, s, f), Ev("SockMessage", s, 0))

\* event.data of a message event: the text of a JSON object, which parses to
\* the frame value, text that is no JSON, or the text null
Data(text, value) == [text |-> text, value |-> value]

BadData == {Data("malformed", Frame("", NoPayload)), Data("null", Frame("", NoPayload))}

\* a parse that yields a frame whatever the text
JSONParseMutant(data) == <<data.value>>

\* JSON.parse(event.data) and the read of message.type, in the try block:
\* the frame, or nothing when JSON.parse throws a SyntaxError or the read of
\* the type of null throws a TypeError
JSONParse(data) == IF data.text = "object" THEN <<data.value>> ELSE << >>

\* the message event of socket s for event.data; the catch block logs
Delivered(m, s, data) ==
    LET parsed == JSONParse(data)
    IN  IF parsed = << >> THEN m ELSE MessageEvent(m, s, parsed[1])

\* a message event whose data does not parse
SockGarbage(s, data) ==
    /\ socks[s].rs = "OPEN"
    /\ Becomes(Delivered(Cur, s, data), Ev("SockMessage", s, 0))

\* codes a close event of socket s can carry: without an established
\* connection no close frame was received
CodesOfMutant(s) == CloseCodes

CodesOf(s) == IF socks[s].est THEN CloseCodes ELSE {AbnormalClosure}

\* the reason of a close event: the one of the close frame, none without a frame
ReasonsOf(code) == IF code = NormalClosure THEN {"Server closing"} ELSE {""}

\* the connection of socket s is closed: readyState CLOSED, then onclose
SockClose(s, code, reason, jitter) ==
    /\ socks[s].rs \in {"CONNECTING", "OPEN", "CLOSING"}
    /\ code \in CodesOf(s)
    /\ reason \in ReasonsOf(code)
    /\ (Basic \/ isManualClose \/ code = NormalClosure) => jitter = 0
    /\ LET m == [Cur EXCEPT !.socks[s] = ClosedSocket]
       IN  Becomes(IF Basic THEN Rendered(BasicOnclose(m, s, socks[s].att, code, reason))
                   ELSE onclose(m, s, code, reason, jitter),
                   Ev("SockClose", s, code))

(***************************************************************************)
(* The platform: timers.                                                   *)
(***************************************************************************)
\* a one-shot timer has fired: it is no longer armed.  A handle that still
\* holds its id is only ever passed to clearTimeout, as null is.
Fired(m, t) ==
    [m EXCEPT !.pending = @ \ {t},
              !.timers = [k \in TimerKinds |-> IF m.timers[k] = t.id THEN 0 ELSE m.timers[k]]]

\* an interval timer has fired: its next run is an interval away
Rearmed(m, t) ==
    [m EXCEPT !.pending = (@ \ {t}) \cup {[t EXCEPT !.older = Len(m.shortQ),
                                                       !.due = m.now + t.delay]}]

\* the oldest 100 ms timer has fired
ShortFired(m) ==
    [m EXCEPT !.shortQ = Tail(@),
              !.pending = {[t EXCEPT !.older = IF @ > 0 THEN @ - 1 ELSE 0] : t \in @}]

\* the connection-timeout callback of the connect() that created t.sock
TimeoutFire(t) ==
    /\ t \in pending /\ t.kind = "connection" /\ t.older = 0
    /\ Becomes(IF socks[t.sock].rs = "CONNECTING"
               THEN CloseSocket(Fired(Cur, t), t.sock)
               ELSE Fired(Cur, t),
               Ev("TimeoutFire", t.sock, 0))

\* the reconnect callback armed by onclose: dispatch, then connect()
ReconnectFire(t) ==
    /\ t \in pending /\ t.kind = "reconnect" /\ t.older = 0
    /\ Becomes(IF Basic
               THEN Rendered(BasicConnect(BasicDispatch(Fired(Cur, t), Act("RECONNECTING")),
                                          t.att))
               ELSE connect(dispatch(Fired(Cur, t), Act("RECONNECTING"))),
               Ev("ReconnectFire", ws, 0))

\* the heartbeat interval callback
HeartbeatFire(t) ==
    /\ t \in pending /\ t.kind = "heartbeat" /\ t.older = 0
    /\ Becomes(IF Basic THEN sendMessage(Rearmed(Cur, t), Out("ping", ""))
               ELSE heartbeat(Rearmed(Cur, t)),
               Ev("HeartbeatFire", ws, 0))

\* the latency-check interval callback
LatencyCheckFire(t) ==
    /\ t \in pending /\ t.kind = "latencyCheck" /\ t.older = 0
    /\ Becomes(latencyCheck(Rearmed(Cur, t)), Ev("LatencyCheckFire", ws, 0))

\* the oldest 100 ms timer fires: connect() of reconnect(), or subscribe(channel)
ShortFire ==
    /\ shortQ # << >>
    /\ LET t == Head(shortQ)
           m == ShortFired(Cur)
       IN  IF t.kind = "manual"
           THEN Becomes(IF Basic THEN Rendered(BasicConnect(m, t.att)) ELSE connect(m),
                        Ev("ManualFire", ws, 0))
           ELSE Becomes(subscribe(m, t.chan), Ev("AutoSubFire", ws, 0))

\* the batch flush interval callback
FlushFire ==
    /\ flushArmed
    /\ Len(messageBuffer) > 0
    /\ Becomes(FlushBuffer(Cur), Ev("FlushFire", ws, 0))

Next ==
    \/ Mount
    \/ Unmount
    \/ Reconnect
    \/ \E c \in UserChannels : Subscribe(c)
    \/ \E c \in UserChannels : Unsubscribe(c)
    \/ \E s \in 1..Len(socks) : SockOpen(s)
    \/ \E s \in 1..Len(socks), f \in Frames : SockMessage(s, f)
    \/ \E s \in 1..Len(socks), code \in CloseCodes, reason \in {"", "Server closing"},
          jitter \in Jitters : SockClose(s, code, reason, jitter)
    \/ \E t \in pending : TimeoutFire(t)
    \/ \E t \in pending : ReconnectFire(t)
    \/ \E t \in pending : HeartbeatFire(t)
    \/ \E t \in pending : LatencyCheckFire(t)
    \/ ShortFire
    \/ FlushFire

Spec == Init /\ [][Next]_vars

(***************************************************************************)
(* Runs with the clock.  In Spec time is abstract: the clock stands still  *)
(* and an armed timer fires at any moment.  In TimedSpec a timer fires     *)
(* when it is due and the clock moves from one due time to the next; the   *)
(* run is one of useEnhancedWebSocket without batching and auto-subscribe, *)
(* the caller calls nothing, and the server answers pings or not.          *)
(***************************************************************************)
Due(t) == t.due <= now

\* nothing is due: the clock moves to the next due time
Advance ==
    /\ pending # {}
    /\ \A t \in pending : ~Due(t)
    /\ LET next == CHOOSE d \in {t.due : t \in pending} : \A t \in pending : d <= t.due
       IN  /\ next <= 1 + MaxChecks * (HeartbeatInterval \div 2)
           /\ Becomes([Cur EXCEPT !.now = next], Ev("Advance", 0, 0))

TimedInit == Init /\ cfg = [hook |-> "enhanced", batch |-> FALSE, autoSubscribe |-> FALSE]

TimedNext ==
    \/ Mount
    \/ \E s \in 1..Len(socks) : SockOpen(s)
    \/ \E s \in 1..Len(socks) : SockMessage(s, Frame("pong", NoPayload))
    \/ \E s \in 1..Len(socks) : SockClose(s, AbnormalClosure, "", 0)
    \/ \E t \in pending : Due(t) /\ TimeoutFire(t)
    \/ \E t \in pending : Due(t) /\ ReconnectFire(t)
    \/ \E t \in pending : Due(t) /\ HeartbeatFire(t)
    \/ \E t \in pending : Due(t) /\ LatencyCheckFire(t)
    \/ Advance

TimedSpec == TimedInit /\ [][TimedNext]_vars

(***************************************************************************)
(* Runs of the message path.  The server sends frames of several kinds,    *)
(* two different account updates and its two notices of trouble; the caller reconnects by hand, the       *)
(* transport is lost, and the timers fire at any moment as in Spec.        *)
(***************************************************************************)
ServerFrames ==
    { Frame("welcome", NoPayload),
      Frame("account_update", AccountPayload(100)),
      Frame("account_update", AccountPayload(200)),
      Frame("pong", NoPayload),
      Frame("heartbeat", NoPayload),
      Frame("connection_disconnected", NoPayload),
      Frame("error", [NoPayload EXCEPT !.kind = "string", !.str = "boom"]) }

MessageInit == Init /\ ~cfg.autoSubscribe

MessageNext ==
    \/ Mount
    \/ Reconnect
    \/ \E s \in 1..Len(socks) : SockOpen(s)
    \/ \E s \in 1..Len(socks), f \in ServerFrames : SockMessage(s, f)
    \/ \E s \in 1..Len(socks), data \in BadData : SockGarbage(s, data)
    \/ \E s \in 1..Len(socks) : SockClose(s, AbnormalClosure, "", 0)
    \/ \E t \in pending : ReconnectFire(t)
    \/ \E t \in pending : HeartbeatFire(t)
    \/ ShortFire
    \/ FlushFire

MessageSpec == MessageInit /\ [][MessageNext]_vars

(***************************************************************************)
(* Runs of the reducer alone: from initialState, any action in any order,  *)
(* with the reducer of the hook of the run.  Nothing but the snapshot and  *)
(* the clock changes; ev.op is the type of the action dispatched, or the   *)
(* type of the message of a MESSAGE action.                                *)
(***************************************************************************)
\* latencies around the limits of connectionQuality, and the stale sentinel
Latencies == {-1, 0, 1, 99, 100, 101, 299, 300, 301}

UnknownFrames == {Frame("nonsense", NoPayload), Frame("nonsense", AccountPayload(7))}

\* market_data payloads: a quote, a quote in the member data, one of another
\* symbol, an object without symbol, and no object
MarketFrames ==
    { Frame("market_data", QuotePayload("EURUSD", 110)),
      Frame("market_data", [QuotePayload("EURUSD", 110) EXCEPT
                               !.keys = {"symbol", "data"}, !.sub = 111]),
      Frame("market_data", QuotePayload("GBPUSD", 125)),
      Frame("market_data", [NoPayload EXCEPT !.kind = "object", !.keys = {"bid"}, !.num = 130]),
      Frame("market_data", NoPayload) }

\* error payloads: a bare string, an object with a message, one with an
\* empty message, one without the member, and no payload
ErrorFrames ==
    { Frame("error", [NoPayload EXCEPT !.kind = "string", !.str = "boom"]),
      Frame("error", [NoPayload EXCEPT !.kind = "object", !.keys = {"message"},
                                       !.message = "bad"]),
      Frame("error", [NoPayload EXCEPT !.kind = "object", !.keys = {"message"}]),
      Frame("error", [NoPayload EXCEPT !.kind = "object", !.keys = {"code"}, !.num = 7]),
      Frame("error", NoPayload) }

\* connection_status payloads: connected, not connected with and without a
\* message, and no payload
StatusFrames ==
    { Frame("connection_status", [NoPayload EXCEPT !.kind = "object",
                                     !.keys = {"connected"}, !.connected = TRUE]),
      Frame("connection_connected", [NoPayload EXCEPT !.kind = "object",
                                        !.keys = {"connected", "message"}, !.message = "down"]),
      Frame("connection_status", [NoPayload EXCEPT !.kind = "object", !.keys = {"connected"}]),
      Frame("connection_connected", NoPayload) }

\* account, position and order payloads: a second account record, a bare
\* sequence, a wrapper object, an object without the member, a string and
\* no payload
RecordFrames ==
    { Frame("account_update", AccountPayload(200)),
      Frame("position_update", ArrayPayload(<<1, 2>>)),
      Frame("position_update", [NoPayload EXCEPT !.kind = "object", !.keys = {"positions"},
                                                 !.inner = <<3>>]),
      Frame("position_update", [NoPayload EXCEPT !.kind = "object", !.keys = {"count"}]),
      Frame("position_update", [NoPayload EXCEPT !.kind = "string", !.str = "none"]),
      Frame("position_update", NoPayload),
      Frame("order_update", ArrayPayload(<<4>>)),
      Frame("order_update", [NoPayload EXCEPT !.kind = "object", !.keys = {"orders"},
                                              !.inner = <<5>>]),
      Frame("order_update", [NoPayload EXCEPT !.kind = "string", !.str = "none"]) }

\* 'positions' in positionData and 'orders' in orderData throw a TypeError
\* when the payload is a primitive that is not falsy: here a non-empty string
Throws(message) ==
    /\ message.type \in {"position_update", "order_update"}
    /\ message.data.kind = "string" /\ message.data.str # ""

\* the frames of the runs of the reducer; of the record payloads, the
\* position updates with a sequence and with a string
ReducerFrames ==
    Frames \cup UnknownFrames \cup MarketFrames \cup ErrorFrames \cup StatusFrames
        \cup {f \in RecordFrames :
                f.type = "position_update" /\ f.data.kind \in {"array", "string"}}
        \cup {Frame("connection_disconnected", NoPayload)}

ReducerActions ==
    {Act("CONNECTED"), Act("RECONNECTING"), Act("DISCONNECTED")}
        \cup {[Act("MESSAGE") EXCEPT !.messages = <<f>>] : f \in ReducerFrames}
        \cup {[Act("SUBSCRIBE") EXCEPT !.channel = c] : c \in UserChannels}
        \cup {[Act("UPDATE_LATENCY") EXCEPT !.latency = l] : l \in Latencies}

\* the reducer of the hook of the run
Reduced(st, a) == IF Basic THEN BasicReducer(st, a, now) ELSE reducer(st, a, now)

Dispatch(a) ==
    /\ a.type = "RECONNECTING" => state.connectionAttempts < ReducerDepth
    /\ a.type = "MESSAGE" => (Basic \/ ~Throws(a.messages[1]))
    /\ state' = Reduced(state, a)
    /\ ev' = Ev(IF a.type = "MESSAGE" THEN a.messages[1].type ELSE a.type, 0, 0)
    /\ UNCHANGED <<cfg, socks, ws, timers, pending, shortQ, flushArmed, isManualClose,
                   connectionAttempts, messageBuffer, lastPingTime, mounted, now,
                   unanswered, last, nSched, cycled>>

Tick ==
    /\ now <= ReducerDepth
    /\ now' = now + 1
    /\ ev' = Ev("Tick", 0, 0)
    /\ UNCHANGED <<cfg, socks, ws, timers, pending, shortQ, flushArmed, isManualClose,
                   connectionAttempts, messageBuffer, lastPingTime, state, mounted,
                   unanswered, last, nSched, cycled>>

ReducerInit == Init /\ ~cfg.batch /\ ~cfg.autoSubscribe

ReducerNext ==
    \/ \E a \in ReducerActions : Dispatch(a)
    \/ Tick

ReducerSpec == ReducerInit /\ [][ReducerNext]_vars

TypeOK ==
    /\ ws \in 0..Len(socks)
    /\ Len(socks) <= (IF Basic THEN BasicMaxSockets ELSE MaxSockets)
    /\ nSched \in 0..MaxCounted
    /\ unanswered \in {0} \cup 1..now
    /\ last \in {0} \cup {f.data.num : f \in Frames \cup ServerFrames}
    /\ \A s \in 1..Len(socks) : socks[s].rs \in ReadyStates
    /\ \A k \in TimerKinds : timers[k] = 0 \/ \E t \in pending : t.id = timers[k] /\ t.kind = k
    /\ Len(shortQ) <= MaxShortTimers
    /\ Len(messageBuffer) < BufferSize

(***************************************************************************)
(* Properties.                                                             *)
(***************************************************************************)
Live(s) == socks[s].rs \in {"CONNECTING", "OPEN"}

OwnedOpen == ws # 0 /\ socks[ws].rs = "OPEN"

ReconnectTimers == {t \in pending : t.kind = "reconnect"}

\* C1: at most one WebSocket object is CONNECTING or OPEN at any time, and
\* connect() changes nothing while the owned one is CONNECTING or OPEN.
C1_AtMostOneLive ==
    /\ Cardinality({s \in 1..Len(socks) : Live(s)}) <= 1
    /\ (ws # 0 /\ Live(ws)) =>
          IF Basic THEN \A att \in 0..MaxReconnectAttempts : BasicConnect(Cur, att) = Cur
          ELSE connect(Cur) = Cur

\* a connect() of reconnect() ran while the owned socket was already open,
\* next to a socket that is still closing
C1_Witness ==
    /\ ev.op = "ManualFire" /\ ev.made = 0
    /\ OwnedOpen
    /\ \E s \in 1..Len(socks) : socks[s].rs = "CLOSING"

\* C2: while useEnhancedWebSocket is mounted, isConnected is true exactly when
\* the owned socket is OPEN.
C2_ConnectedIffOpen ==
    (mounted = "mounted" /\ ~Basic) => (state.isConnected <=> OwnedOpen)

\* C3: while the hook is mounted and isConnected is false, the snapshot holds
\* no trading data.
C3_NoStaleData ==
    (mounted = "mounted" /\ ~state.isConnected) => ~HasData(state)

\* the handlers that dispatch DISCONNECTED on a mounted hook
Disconnecting(e) == e.op \in {"SockClose", "Reconnect"}

\* C4: a DISCONNECTED transition leaves no trading data, sets isConnected to
\* false and leaves subscribedChannels as it was.
C4_DisconnectResets ==
    [][(Disconnecting(ev') /\ mounted' = "mounted") =>
          /\ ~HasData(state')
          /\ ~state'.isConnected
          /\ state'.subscribedChannels = state.subscribedChannels]_vars

\* a disconnect of a snapshot that held trading data and subscriptions
C4_Witness ==
    /\ Disconnecting(ev) /\ ev.had /\ mounted = "mounted"
    /\ state.subscribedChannels # {}
    /\ ~HasData(state)

\* no subscribe() is waiting in the stagger of autoSubscribeToChannels
StaggerDone == \A i \in 1..Len(shortQ) : shortQ[i].kind # "autosub"

\* C5: after a disconnect, once the new socket is open and the stagger has
\* run, a subscribe request was written on it for every subscribed channel.
C5_Resubscribed ==
    (mounted = "mounted" /\ cycled /\ OwnedOpen /\ StaggerDone) =>
        state.subscribedChannels \subseteq socks[ws].sent

\* C6: the close of a socket that disconnect() was called on, or a close
\* with code 1000, arms no reconnect timer.
C6_NoReconnectAfterManualClose ==
    [][(ev'.op = "SockClose" /\ (socks[ev'.sock].manual \/ ev'.code = NormalClosure)) =>
          ReconnectTimers' = {}]_vars

\* an abnormal close of the owned socket with the manual flag down
AbnormalOwnedClose(e) ==
    e.op = "SockClose" /\ e.code # NormalClosure /\ e.sock = ws /\ ~isManualClose

\* C7: the abnormal close of the owned socket arms exactly one reconnect
\* timer, that timer creates exactly one WebSocket object when it fires, and
\* never more than one reconnect timer is armed.
C7_ExactlyOneReconnect ==
    [][/\ AbnormalOwnedClose(ev') => Cardinality(ReconnectTimers') = 1
       /\ (ev'.op = "ReconnectFire" /\ \E t \in ReconnectTimers : t.owned) => ev'.made = 1
       /\ Cardinality(ReconnectTimers') <= 1]_vars

\* C8: once the reconnect timer of useEnhancedWebSocket has fired, the
\* snapshot's connectionAttempts is the number of reconnects scheduled since
\* the last open.
C8_AttemptsCountReconnects ==
    (mounted = "mounted" /\ ~Basic /\ ev.op = "ReconnectFire") =>
        state.connectionAttempts = nSched

\* C9: the n-th reconnect timer in a row (n from 0) is armed with the delay
\* min(reconnectDelay * backoffFactor^n, maxDelay) before jitter.
C9_BackoffDelay ==
    \A t \in ReconnectTimers :
        t.delay - t.jitter = Min(ReconnectDelay * Pow(BackoffFactor, nSched - 1), MaxDelay)

\* C10: once more than maxReconnectAttempts reconnects in a row have been
\* scheduled, no handler creates a WebSocket object and no close arms another
\* reconnect timer, until the caller invokes reconnect().
C10_ExhaustedStops ==
    [][(nSched > MaxReconnectAttempts /\ ev'.op # "Reconnect") =>
          /\ ev'.made = 0
          /\ ~(ev'.op = "SockClose" /\ ReconnectTimers' # {})]_vars

\* the snapshot's error is the message of the RECONNECTING transition
Retrying(st) == st.error # << >> /\ st.error[1] = "Reconnecting... Attempt"

\* connect() refuses for the count of attempts and no reconnect timer is armed
Exhausted ==
    /\ connectionAttempts > MaxReconnectAttempts
    /\ ReconnectTimers = {}
    /\ ~(ws # 0 /\ Live(ws))

\* C11: once the reconnect attempts of useEnhancedWebSocket are exhausted, the
\* snapshot's error is not the 'Reconnecting... Attempt N.' message of a retry
\* in progress.
C11_ExhaustedErrorDistinct ==
    (mounted = "mounted" /\ ~Basic /\ Exhausted) => ~Retrying(state)

\* C12: the close of a socket that its connection timeout closed while it was
\* CONNECTING arms a reconnect timer with a delay of the backoff series, as an
\* abrupt close does, unless disconnect() has been called since.
C12_TimeoutReconnects ==
    (ev.op = "SockClose" /\ ev.timedOut /\ ~isManualClose) =>
        \E t \in ReconnectTimers :
            t.delay - t.jitter \in {BackoffDelay(n) : n \in 0..(MaxReconnectAttempts + 1)}

\* a connection attempt timed out and its close armed the reconnect timer
C12_Witness ==
    /\ ev.op = "SockClose" /\ ev.timedOut /\ ev.code = AbnormalClosure
    /\ ~isManualClose /\ mounted = "mounted"
    /\ ReconnectTimers # {}

\* C13: the caller cannot invoke reconnect() after the disconnect() of the
\* unmount, so whichever reconnect timer was pending when that disconnect()
\* ran (the backoff timer or the 100 ms timer of reconnect()), no handler
\* that runs afterwards creates a WebSocket object.
C13_NoConnectAfterDisconnect ==
    [][mounted = "unmounted" => ev'.made = 0]_vars

\* C14: after the unmount no timer of the hook is armed through
\* metaRef.current.timers or by the flush effect, no step is the callback of
\* a 100 ms timer (of reconnect() or of the auto-subscribe stagger), which is
\* what leaves shortQ, and no handler creates a WebSocket object.
C14_QuietAfterTeardown ==
    [][mounted = "unmounted" =>
          /\ pending = {} /\ ~flushArmed
          /\ shortQ' = shortQ
          /\ ev'.made = 0]_vars

\* C15: when disconnect() returns, in reconnect() or at the unmount, no timer
\* armed through metaRef.current.timers (connection timeout, heartbeat,
\* latency check, reconnect) is pending and the batch flush interval is not
\* armed.
C15_DisconnectClearsTimers ==
    [][(ev'.op = "Reconnect" \/ (mounted = "mounted" /\ mounted' = "unmounted")) =>
          (pending' = {} /\ ~flushArmed')]_vars

\* disconnect() of the hook of the run
Disconnected(m) == IF m.cfg.hook = "basic" THEN BasicDisconnect(m) ELSE disconnect(m)

\* C16: from every reachable state, disconnect() called twice leaves the
\* snapshot, metaRef.current.ws, the manual-close flag, the attempts and the
\* armed timers as disconnect() called once leaves them.
C16_DisconnectIdempotent ==
    LET once  == Disconnected(Cur)
        twice == Disconnected(once)
    IN  /\ twice.state = once.state
        /\ twice.ws = once.ws /\ twice.socks = once.socks
        /\ twice.isManualClose = once.isManualClose
        /\ twice.connectionAttempts = once.connectionAttempts
        /\ twice.pending = once.pending /\ twice.timers = once.timers
        /\ twice.shortQ = once.shortQ

\* a state in which disconnect() changes the snapshot, the handle, the flag
\* and the timers
C16_Witness ==
    LET once == Disconnected(Cur)
    IN  /\ OwnedOpen /\ HasData(state) /\ ~isManualClose
        /\ once.state # state /\ once.ws # ws
        /\ once.isManualClose # isManualClose /\ once.pending # pending

\* a ping was written on the owned open socket two heartbeat intervals and
\* one latency-check period ago or earlier, no pong has come since, and no
\* callback is left to run at the current time
Stale ==
    /\ OwnedOpen /\ unanswered > 0
    /\ \A t \in pending : ~Due(t)
    /\ now - unanswered >= 2 * HeartbeatInterval + HeartbeatInterval \div 2

\* C17: once a ping of the open socket has been without a pong for two
\* heartbeat intervals, the next latency check publishes latency = -1; the
\* step that publishes -1 changes neither isConnected nor the socket.
C17_StaleSentinel ==
    [][/\ Stale' => state'.latency = -1
       /\ (state'.latency = -1 /\ state.latency # -1) =>
             (state'.isConnected = state.isConnected /\ socks' = socks /\ ws' = ws)]_vars

\* C18: a connected snapshot with the stale sentinel, latency = -1, has
\* connection quality 'poor'.
C18_StaleIsPoor ==
    (state.isConnected /\ state.latency = -1) => connectionQuality(state) = "poor"

\* C19: for a latency of 0 or more, connection quality is 'disconnected'
\* when isConnected is false, else 'excellent' below 100, 'good' from 100 and
\* below 300, 'poor' from 300.
C19_QualityBuckets ==
    state.latency >= 0 =>
        connectionQuality(state) =
            CASE ~state.isConnected -> "disconnected"
              [] state.isConnected /\ state.latency < 100 -> "excellent"
              [] state.isConnected /\ state.latency \in 100..299 -> "good"
              [] OTHER -> "poor"

\* a connected snapshot whose latency is on the limit between 'good' and 'poor'
C19_Witness ==
    /\ ev.op = "UPDATE_LATENCY" /\ state.isConnected /\ state.latency = 300
    /\ connectionQuality(state) = "poor"

\* C20: a message of a kind the reducer has no case for leaves every field
\* of the snapshot as it was, except lastMessageTime, which becomes the
\* current time.
C20_UnknownKindKeepsSnapshot ==
    [][ev'.op = "nonsense" => state' = [state EXCEPT !.lastMessageTime = <<now>>]]_vars

\* a message of an unknown kind was reduced on a snapshot with data, an
\* error, attempts and an older lastMessageTime
C20_Witness ==
    /\ ev.op = "nonsense"
    /\ state.accountData # << >> /\ state.error # << >> /\ state.connectionAttempts > 0
    /\ state.lastMessageTime = <<now>> /\ now > 1

\* C21: reducing a market_data message whose payload is an object with a
\* symbol S sets the entry of S to the quote (the member data of the payload,
\* or the payload) and keeps the entry of every other symbol; any other
\* market_data payload leaves marketData as it is.
C21_MarketMergePerSymbol ==
    ~Basic =>
        \A f \in MarketFrames :
            LET Entries(md) == IF md = << >> THEN {} ELSE md[1]
                old == state.marketData
                new == processMessage(state, f, now).marketData
                d   == f.data
            IN  IF d.kind = "object" /\ "symbol" \in d.keys
                THEN /\ <<d.symbol, IF d.sub # 0 THEN d.sub ELSE d.num>> \in Entries(new)
                     /\ \A e \in Entries(new) \cup Entries(old) :
                           e[1] # d.symbol => (e \in Entries(new) <=> e \in Entries(old))
                     /\ \A e \in Entries(new) : e[1] = d.symbol => e[2] \in {d.sub, d.num}
                ELSE new = old

\* a quote was merged into a snapshot that keeps the quote of another symbol
C21_Witness ==
    /\ ev.op = "market_data" /\ state.marketData # << >>
    /\ <<"EURUSD", 111>> \in state.marketData[1]
    /\ <<"GBPUSD", 125>> \in state.marketData[1]

\* C22: flushing a buffer m1..mk yields the snapshot of reducing m1, then m2,
\* ..., then mk one at a time, so of two account updates the later one wins;
\* and across flushes the messages are applied in the order of their
\* delivery: once everything delivered has been flushed, the account shown
\* is the one of the last account update delivered.
C22_FlushKeepsOrder ==
    ~Basic =>
        /\ \A m1, m2 \in ServerFrames :
               /\ reducer(state, [Act("BATCH_UPDATE") EXCEPT !.messages = <<m1, m2>>], now)
                     = processMessage(processMessage(state, m1, now), m2, now)
               /\ (m1.type = "account_update" /\ m2.type = "account_update") =>
                     reducer(state, [Act("BATCH_UPDATE") EXCEPT !.messages = <<m1, m2>>],
                             now).accountData = <<m2.data.num>>
        /\ (mounted = "mounted" /\ messageBuffer = << >> /\ last # 0) =>
               state.accountData = <<last>>

\* a second connection of a batching hook shows the balance 100 delivered
\* after the balance 200, nothing being left in the buffer
C22_Witness ==
    /\ cfg.batch /\ cycled /\ OwnedOpen
    /\ messageBuffer = << >> /\ last = 100 /\ state.accountData = <<100>>
\* C23: every disconnect, by a close event of the transport or by
\* disconnect(), leaves the batching buffer empty, so that no message
\* buffered before it is applied after it.
C23_DisconnectEmptiesBuffer ==
    [][Disconnecting(ev') => messageBuffer' = << >>]_vars
\* C24: when the owned socket of a mounted hook opens, the attempt counters
\* are 0, error is absent, isConnected is true and lastMessageTime is the
\* time of the open, whatever the number of failed attempts before.
C24_OpenResetsAttempts ==
    (mounted = "mounted" /\ ws # 0 /\ socks[ws].rs = "CONNECTING") =>
        LET m == OpenEvent(ws)
        IN  /\ m.state.connectionAttempts = 0
            /\ m.connectionAttempts = 0
            /\ m.state.error = << >>
            /\ m.state.isConnected
            /\ m.state.lastMessageTime = <<now>>
\* the owned socket is about to open after two failed attempts or more, the
\* snapshot showing an attempt and its error
C24_Witness ==
    /\ mounted = "mounted" /\ ws # 0 /\ socks[ws].rs = "CONNECTING"
    /\ connectionAttempts >= 2 /\ state.connectionAttempts >= 1
    /\ state.error # << >> /\ ~state.isConnected
\* the account updates the server sends
AccountFrames == {f \in ServerFrames : f.type = "account_update"}

C26_HeartbeatWhileOpen ==
    ~Basic =>
      Cardinality({t \in pending : t.kind = "heartbeat"}) = IF OwnedOpen THEN 1 ELSE 0
\* C27: a pong received on the owned socket publishes the time since the
\* oldest ping of this connection that no pong has answered; when this
\* connection has no such ping, it leaves the latency as it is.
C27_PongLatency ==
    (mounted = "mounted" /\ ~Basic /\ OwnedOpen) =>
        LET m == MessageEvent(Cur, ws, Frame("pong", NoPayload))
        IN  m.state.latency = IF unanswered # 0 THEN now - unanswered ELSE state.latency
C29_PongAndHeartbeatNotForwarded ==
    \A s \in 1..Len(socks) : \A f \in {Frame("pong", NoPayload), Frame("heartbeat", NoPayload)} :
        socks[s].rs = "OPEN" =>
            LET m == MessageEvent(Cur, s, f)
            IN  /\ [m.state EXCEPT !.latency = state.latency] = state
                /\ m.messageBuffer = messageBuffer
                /\ (f.type = "heartbeat" \/ Basic) => m.state = state

\* a batching hook has published a latency on the pong of its open socket,
\* with a welcome frame and nothing else in the buffer
C29_Witness ==
    /\ cfg.batch /\ mounted = "mounted" /\ OwnedOpen
    /\ state.latency # 0
    /\ messageBuffer = <<Frame("welcome", NoPayload)>>
\* C30: a message event whose data does not parse changes nothing (snapshot,
\* batching buffer, timers, sockets and connection state are as before), and
\* a well-formed frame delivered after it is processed as if it had not been
\* received.
C30_UnparsedFrameDropped ==
    \A s \in 1..Len(socks) : \A data \in BadData :
        socks[s].rs = "OPEN" =>
            /\ Delivered(Cur, s, data) = Cur
            /\ \A f \in ServerFrames :
                  Delivered(Delivered(Cur, s, data), s, Data("object", f)) = MessageEvent(Cur, s, f)

\* an open socket of a batching hook with an account shown, a message in the
\* buffer and timers armed: a state in which such a frame has something to
\* spoil
C30_Witness ==
    /\ cfg.batch /\ mounted = "mounted" /\ OwnedOpen
    /\ state.accountData # << >> /\ messageBuffer # << >> /\ pending # {}
    /\ Delivered(Cur, ws, Data("malformed", Frame("", NoPayload))) = Cur
\* the notices of the server: an error and the loss of its upstream connection
Notices == {f \in ServerFrames : f.type \in {"error", "connection_disconnected"}}

\* C31: an error or connection_disconnected message changes nothing of the
\* snapshot but error and lastMessageTime, and its message event leaves the
\* sockets, the owned socket, the attempt counters, the manual-close flag
\* and the timers as they are.
C31_NoticesOnlySetError ==
    \A f \in Notices :
        /\ LET st == Reduced(state, [Act("MESSAGE") EXCEPT !.messages = <<f>>])
           IN  /\ [st EXCEPT !.error = state.error,
                             !.lastMessageTime = state.lastMessageTime] = state
               /\ st.error # << >>
        /\ \A s \in 1..Len(socks) :
              socks[s].rs = "OPEN" =>
                 LET m == MessageEvent(Cur, s, f)
                 IN  /\ m.socks = socks /\ m.ws = ws
                     /\ m.pending = pending /\ m.timers = timers /\ m.shortQ = shortQ
                     /\ m.connectionAttempts = connectionAttempts
                     /\ m.isManualClose = isManualClose
                     /\ m.state.isConnected = state.isConnected
                     /\ m.state.connectionAttempts = state.connectionAttempts

\* the owned socket is open and the snapshot is connected while it shows the
\* loss of the upstream connection
C31_Witness ==
    /\ mounted = "mounted" /\ OwnedOpen /\ state.isConnected
    /\ state.error = <<"MT5 connection lost">>
    /\ \E t \in pending : t.kind = "heartbeat"
\* C32: reducing an error message sets error to the payload when it is a
\* bare string, to its message when it is an object with a non-empty
\* message, and to 'Unknown server error' otherwise.
C32_ErrorFromPayload ==
    \A f \in ErrorFrames :
        Reduced(state, [Act("MESSAGE") EXCEPT !.messages = <<f>>]).error =
            IF f.data.kind = "string" THEN <<f.data.str>>
            ELSE IF f.data.kind = "object" /\ f.data.message # "" THEN <<f.data.message>>
            ELSE <<"Unknown server error">>
\* C33: reducing a connection_status or connection_connected message clears
\* error when the connected flag of the payload is true, and otherwise sets
\* it to the message of the payload, or to 'Connection status unknown'
\* without one; nothing else but lastMessageTime changes.
C33_StatusSetsError ==
    \A f \in StatusFrames :
        LET st == Reduced(state, [Act("MESSAGE") EXCEPT !.messages = <<f>>])
        IN  /\ st.error = IF f.data.connected THEN << >>
                          ELSE IF f.data.message # "" THEN <<f.data.message>>
                          ELSE <<"Connection status unknown">>
            /\ st.lastMessageTime = <<now>>
            /\ [st EXCEPT !.error = state.error,
                          !.lastMessageTime = state.lastMessageTime] = state

\* a connected snapshot with an account shows the message of a status that
\* was not connected
C33_Witness ==
    /\ ev.op = "connection_connected" /\ state.error = <<"down">>
    /\ state.isConnected /\ state.accountData # << >>
\* C34: in useEnhancedWebSocket an account_update puts its payload in the
\* place of accountData; a position_update or order_update puts a bare
\* sequence, or the member positions or orders of a wrapper object, in the
\* place of positions or orders, and with a payload of neither shape it is
\* reduced with the field left as it is.
C34_RecordsReplaced ==
    ~Basic =>
        \A f \in RecordFrames :
            LET st == reducer(state, [Act("MESSAGE") EXCEPT !.messages = <<f>>], now)
                d  == f.data
                Shaped == IF d.kind = "array" THEN <<d.arr>>
                          ELSE IF d.kind = "object"
                                  /\ (IF f.type = "position_update" THEN "positions"
                                      ELSE "orders") \in d.keys
                          THEN <<d.inner>>
                          ELSE << >>
            IN  /\ ~Throws(f)
                /\ f.type = "account_update" => st.accountData = <<d.num>>
                /\ f.type = "position_update" =>
                      st.positions = IF Shaped # << >> THEN Shaped ELSE state.positions
                /\ f.type = "order_update" =>
                      st.orders = IF Shaped # << >> THEN Shaped ELSE state.orders
\* C35: with batching on, the buffer is always shorter than BUFFER_SIZE: the
\* message that brings it to that length is reduced with the whole buffer
\* at once and the buffer is left empty; and while the hook is mounted the
\* flush interval is armed, and its callback reduces a buffer that is not
\* empty and leaves it empty.
C35_FlushAtSizeOrInterval ==
    (cfg.batch /\ ~Basic) =>
        /\ Len(messageBuffer) < BufferSize
        /\ \A s \in 1..Len(socks) : \A f \in ServerFrames \ {Frame("pong", NoPayload), Frame("heartbeat", NoPayload)} :
              (socks[s].rs = "OPEN" /\ mounted = "mounted") =>
                 LET m   == MessageEvent(Cur, s, f)
                     buf == Append(messageBuffer, f)
                 IN  IF Len(buf) >= BufferSize
                     THEN /\ m.messageBuffer = << >>
                          /\ m.state = reducer(state, [Act("BATCH_UPDATE") EXCEPT !.messages = buf], now)
                     ELSE m.messageBuffer = buf /\ m.state = state
        /\ mounted = "mounted" =>
              /\ flushArmed
              /\ FlushBuffer(Cur).messageBuffer = << >>
              /\ FlushBuffer(Cur).state =
                    IF messageBuffer = << >> THEN state
                    ELSE reducer(state, [Act("BATCH_UPDATE") EXCEPT !.messages = messageBuffer], now)

\* the buffer of a mounted batching hook is one message short of BUFFER_SIZE
\* on an open socket, the flush interval armed
C35_Witness ==
    /\ cfg.batch /\ mounted = "mounted" /\ OwnedOpen /\ flushArmed
    /\ Len(messageBuffer) = BufferSize - 1
    /\ messageBuffer[1].type = "error"
\* C36: on a mounted useEnhancedWebSocket, subscribe(c) leaves the local set
\* with c added and a second subscribe(c) leaves it so; unsubscribe(c)
\* leaves the set without c, which is the set itself when c was absent, also
\* right after a subscribe(c); no other channel enters or leaves the set.
C36_SubscribeIdempotent ==
    (mounted = "mounted" /\ ~Basic) =>
        \A c \in UserChannels \cup {essentialChannels[i] : i \in 1..Len(essentialChannels)} :
            LET subs == state.subscribedChannels
                s1   == subscribe(Cur, c)
            IN  /\ s1.state.subscribedChannels = subs \cup {c}
                /\ subscribe(s1, c).state.subscribedChannels = subs \cup {c}
                /\ unsubscribe(Cur, c).state.subscribedChannels = subs \ {c}
                /\ unsubscribe(s1, c).state.subscribedChannels = subs \ {c}
                /\ unsubscribe(unsubscribe(Cur, c), c).state.subscribedChannels = subs \ {c}

\* the local set holds a channel of the caller and the default ones
C36_Witness ==
    /\ mounted = "mounted" /\ ~Basic
    /\ "market_EURUSD" \in state.subscribedChannels
    /\ "account_updates" \in state.subscribedChannels
    /\ Cardinality(state.subscribedChannels) = Len(essentialChannels) + 1
C38_SupersededCloseIgnored ==
    [][(ev'.op = "SockClose" /\ mounted = "mounted" /\ ws # 0 /\ ev'.sock # ws) =>
          /\ state' = state
          /\ {t.kind : t \in pending} \subseteq {t.kind : t \in pending'}
          /\ ReconnectTimers' = {}]_vars
\* C39: with batching on, when the owned socket opens the buffer holds no
\* message: a message received on an earlier connection has been applied
\* before the later connection opens, so none is applied after it.
C39_NothingCarriedOver ==
    (cfg.batch /\ mounted = "mounted" /\ ws # 0 /\ socks[ws].rs = "CONNECTING") =>
        /\ OpenEvent(ws).messageBuffer = << >>
        /\ FlushBuffer(OpenEvent(ws)).state = OpenEvent(ws).state
\* C40: while the hook owns no OPEN socket, sendMessage, subscribe,
\* unsubscribe and the heartbeat callback write on no socket and queue
\* nothing: a message issued then is dropped and the socket, once open, has
\* not received it (a socket still connecting has been written nothing), while subscribe and unsubscribe still add the channel to
\* and remove it from subscribedChannels.
C40_NoWriteUnlessOpen ==
    (mounted = "mounted" /\ ~OwnedOpen) =>
        /\ \A c \in UserChannels :
              /\ sendMessage(Cur, Out("subscribe", c)) = Cur
              /\ ~Basic =>
                    LET sub   == subscribe(Cur, c)
                        unsub == unsubscribe(Cur, c)
                    IN  /\ sub.socks = socks /\ unsub.socks = socks
                        /\ sub.shortQ = shortQ /\ unsub.shortQ = shortQ
                        /\ sub.pending = pending /\ unsub.pending = pending
                        /\ sub.messageBuffer = messageBuffer
                        /\ unsub.messageBuffer = messageBuffer
                        /\ sub.state.subscribedChannels =
                               state.subscribedChannels \cup {c}
                        /\ unsub.state.subscribedChannels =
                               state.subscribedChannels \ {c}
                        /\ (ws # 0 /\ socks[ws].rs = "CONNECTING") =>
                               c \notin OpenEvent(ws).socks[ws].sent
        /\ (IF Basic THEN sendMessage(Cur, Out("ping", "")) ELSE heartbeat(Cur)) = Cur
        /\ \A s \in DOMAIN socks : socks[s].rs = "CONNECTING" => socks[s].sent = {}

\* a channel subscribed while the first socket is still connecting: the local
\* set has it and the socket has been written nothing
C40_Witness ==
    /\ mounted = "mounted" /\ ~Basic /\ ~cycled
    /\ ws # 0 /\ socks[ws].rs = "CONNECTING"
    /\ state.subscribedChannels = UserChannels
    /\ socks[ws].sent = {}
====
